---- MODULE Spec2Model ----
(***************************************************************************)
(* The batch dashboard of src/app.py as a state machine.                   *)
(*                                                                         *)
(* State: the CSV file at data/df_stable_only.csv (source), the memo of    *)
(* the @st.cache_data wrapper around load_data (cache), the state of the   *)
(* sidebar selectbox (picked), and the locals and rendered elements of the *)
(* most recent execution of main() (run).  One action per way the script   *)
(* is executed (Rerun, SelectBatch) and one for the operator replacing the *)
(* file (SupplySource).                                                    *)
(*                                                                         *)
(* Cells.  A Timestamp cell of the file is text <<day, hour, min, sec>>,   *)
(* or <<>> for an empty cell; pd.to_datetime turns it into an instant (in  *)
(* seconds), into NaT for the empty cell, and raises on a field out of     *)
(* range.  A batch_id cell is a digit string, or <<>> for an empty cell;   *)
(* read_csv parses it to a number, or NaN.  A numeric cell is a number or  *)
(* NaN.  A value printed with :.2f / :.4f is the integer of its hundredths *)
(* / ten-thousandths, or "nan".                                            *)
(***************************************************************************)
EXTENDS Integers, Sequences, FiniteSets, TLC

VARIABLES source, cache, picked, run

vars == <<source, cache, picked, run>>

\* The largest number of data rows of a modelled CSV file.
MaxRows == 2

\* Divisor of total_seconds() in the duration.
SecondsPerMinute == 60

Range(s) == {s[i] : i \in 1..Len(s)}

----------------------------------------------------------------------------
\* Columns

\* The columns of the seven add_trace calls, in call order.
ChartColumns ==
    <<"Process Temp SP", "Process Temp", "Pressure SP", "Inlet Steam Pressure",
      "Outlet Steam Pressure", "Steam Flow Rate", "QualSteam Valve Opening">>

\* The columns of the five calculate_stats calls, in call order.
StatColumns ==
    <<"Process Temp", "Outlet Steam Pressure", "Inlet Steam Pressure",
      "Steam Flow Rate", "QualSteam Valve Opening">>

VarCols == Range(ChartColumns)

\* Every column main() and load_data() look up by name.
RequiredColumns == {"Timestamp", "batch_id"} \cup VarCols

----------------------------------------------------------------------------
\* Cell values

NaN == [nan |-> TRUE, v |-> 0]
Num(n) == [nan |-> FALSE, v |-> n]

NaT == [nat |-> TRUE, t |-> 0]
Instant(t) == [nat |-> FALSE, t |-> t]

\* What f"{x:.2f}" prints for a missing number.
NanStr == [nan |-> TRUE, digits |-> 0]

RECURSIVE ParseInt(_)
\* read_csv: a digit string to its number.
ParseInt(text) ==
    IF text = <<>> THEN 0
    ELSE ParseInt(SubSeq(text, 1, Len(text) - 1)) * 10 + text[Len(text)]

\* read_csv on a batch_id cell: an empty cell is NaN.
ParseId(text) == IF text = <<>> THEN NaN ELSE Num(ParseInt(text))

\* pd.to_datetime accepts the cell: empty, or a well-formed date-time.
TsParseable(text) ==
    \/ text = <<>>
    \/ /\ Len(text) = 4
       /\ text[1] >= 0
       /\ text[2] \in 0..23
       /\ text[3] \in 0..59
       /\ text[4] \in 0..59

\* pd.to_datetime on a parseable cell: NaT for the empty cell.
to_datetime(text) ==
    IF text = <<>> THEN NaT
    ELSE Instant(text[1] * 86400 + text[2] * 3600 + text[3] * 60 + text[4])

\* start_time.strftime('%Y-%m-%d'): the calendar day of the instant.
strftime_date(ts) == ts.t \div 86400

\* ts.strftime('%H:%M:%S')
strftime_time(ts) ==
    LET s == ts.t % 86400
    IN  <<s \div 3600, (s % 3600) \div 60, s % 60>>

----------------------------------------------------------------------------
\* Arithmetic of the printed numbers

RECURSIVE GCD(_, _)
GCD(a, b) == IF b = 0 THEN a ELSE GCD(b, a % b)

\* n/d rounded to an integer, ties to even (n >= 0, d > 0).
RoundHalfEven(n, d) ==
    LET q == n \div d
        r == n % d
    IN  IF 2 * r < d THEN q
        ELSE IF 2 * r > d THEN q + 1
        ELSE IF q % 2 = 0 THEN q ELSE q + 1

\* f"{n/d:.2f}"
Fmt2(n, d) == [nan |-> FALSE, digits |-> RoundHalfEven(n * 100, d)]

RECURSIVE ISqrtIn(_, _, _)
\* The largest r in lo..hi with r*r <= n.
ISqrtIn(n, lo, hi) ==
    IF lo = hi THEN lo
    ELSE LET mid == (lo + hi + 1) \div 2
         IN  IF mid * mid <= n THEN ISqrtIn(n, mid, hi)
             ELSE ISqrtIn(n, lo, mid - 1)

\* f"{sqrt(p/q):.4f}" for a fraction p/q in lowest terms (p >= 0, q > 0).
Fmt4Sqrt(p, q) ==
    LET P == p * 100000000
        r == ISqrtIn(P \div q, 0, 46340)
    IN  [nan |-> FALSE,
         digits |-> IF 4 * (P - q * (r * r + r)) >= q THEN r + 1 ELSE r]

----------------------------------------------------------------------------
\* pandas Series reductions (all skip missing values)

\* series.dropna()
Valid(series) == SelectSeq(series, LAMBDA c : ~c.nan)

RECURSIVE Sum(_)
Sum(s) == IF s = <<>> THEN 0 ELSE s[1].v + Sum(Tail(s))

RECURSIVE SumSq(_)
SumSq(s) == IF s = <<>> THEN 0 ELSE s[1].v * s[1].v + SumSq(Tail(s))

RECURSIVE SortNums(_)
\* The values of s in ascending order.
SortNums(s) ==
    IF s = <<>> THEN <<>>
    ELSE LET rest == SortNums(Tail(s))
             k == Cardinality({i \in 1..Len(rest) : rest[i].v <= s[1].v})
         IN  SubSeq(rest, 1, k) \o <<s[1]>> \o SubSeq(rest, k + 1, Len(rest))

\* A mean that treats a series without values as zero.
MeanZeroFill(series) ==
    LET s == Valid(series)
    IN  IF s = <<>> THEN Fmt2(0, 1) ELSE Fmt2(Sum(s), Len(s))

\* f"{series.mean():.2f}"
Mean(series) ==
    LET s == Valid(series)
    IN  IF s = <<>> THEN NanStr ELSE Fmt2(Sum(s), Len(s))

\* f"{series.median():.2f}"
Median(series) ==
    LET s == SortNums(Valid(series))
        n == Len(s)
    IN  IF n = 0 THEN NanStr
        ELSE IF n % 2 = 1 THEN Fmt2(s[(n + 1) \div 2].v, 1)
        ELSE Fmt2(s[n \div 2].v + s[n \div 2 + 1].v, 2)

\* f"{series.max():.2f}"
Max(series) ==
    LET s == SortNums(Valid(series))
    IN  IF s = <<>> THEN NanStr ELSE Fmt2(s[Len(s)].v, 1)

\* f"{series.min():.2f}"
Min(series) ==
    LET s == SortNums(Valid(series))
    IN  IF s = <<>> THEN NanStr ELSE Fmt2(s[1].v, 1)

\* The standard deviation normalised by N instead of N-1.
StdDevPopulation(series) ==
    LET s == Valid(series)
        n == Len(s)
        p == n * SumSq(s) - Sum(s) * Sum(s)
        q == n * n
        g == GCD(p, q)
    IN  IF n < 1 THEN NanStr ELSE Fmt4Sqrt(p \div g, q \div g)

\* f"{series.std():.4f}": the sample standard deviation (ddof = 1), NaN
\* below two values.
StdDev(series) ==
    LET s == Valid(series)
        n == Len(s)
        p == n * SumSq(s) - Sum(s) * Sum(s)
        q == n * (n - 1)
        g == GCD(p, q)
    IN  IF n < 2 THEN NanStr ELSE Fmt4Sqrt(p \div g, q \div g)

calculate_stats(series) ==
    [Mean   |-> Mean(series),
     Median |-> Median(series),
     Max    |-> Max(series),
     Min    |-> Min(series),
     StdDev |-> StdDev(series)]

----------------------------------------------------------------------------
\* The data file and load_data

\* The value load_data returns when the file is not found.
NoneValue == [isNone |-> TRUE, cols |-> {}, rows |-> <<>>]

\* A row of the data frame, its Timestamp converted.
ParseRow(raw) ==
    [Timestamp |-> to_datetime(raw.Timestamp),
     batch_id  |-> ParseId(raw.batch_id),
     vals      |-> raw.vals]

\* A load that lets FileNotFoundError leave the function like every other
\* exception.
load_data_uncaught(src) ==
    IF ~src.exists \/ "Timestamp" \notin src.cols
    THEN [raised |-> TRUE, value |-> NoneValue,
          exc |-> IF src.exists THEN "KeyError" ELSE "FileNotFoundError"]
    ELSE IF \E i \in 1..Len(src.rows) : ~TsParseable(src.rows[i].Timestamp)
    THEN [raised |-> TRUE, exc |-> "ValueError", value |-> NoneValue]
    ELSE [raised |-> FALSE, exc |-> "",
          value |-> [isNone |-> FALSE, cols |-> src.cols,
                     rows |-> [i \in 1..Len(src.rows) |-> ParseRow(src.rows[i])]]]

\* The body of load_data: None when the file is not found; the uncaught
\* KeyError of df['Timestamp'] and ValueError of pd.to_datetime leave the
\* function; otherwise the data frame.
load_data(src) ==
    IF ~src.exists
    THEN [raised |-> FALSE, exc |-> "", value |-> NoneValue]
    ELSE IF "Timestamp" \notin src.cols
    THEN [raised |-> TRUE, exc |-> "KeyError", value |-> NoneValue]
    ELSE IF \E i \in 1..Len(src.rows) : ~TsParseable(src.rows[i].Timestamp)
    THEN [raised |-> TRUE, exc |-> "ValueError", value |-> NoneValue]
    ELSE [raised |-> FALSE, exc |-> "",
          value |-> [isNone |-> FALSE, cols |-> src.cols,
                     rows |-> [i \in 1..Len(src.rows) |-> ParseRow(src.rows[i])]]]

\* The memo of @st.cache_data before the first call.
EmptyCache == [filled |-> FALSE, value |-> NoneValue]

\* load_data() as main calls it, through @st.cache_data: a stored return
\* value (None included) is served without running the body; a value the
\* body returns is stored; an exception is not.
cached_load_data(src, c) ==
    IF c.filled
    THEN [raised |-> FALSE, exc |-> "", value |-> c.value, cache |-> c]
    ELSE LET r == load_data(src)
         IN  [raised |-> r.raised, exc |-> r.exc, value |-> r.value,
              cache |-> IF r.raised THEN c
                        ELSE [filled |-> TRUE, value |-> r.value]]

----------------------------------------------------------------------------
\* Batch selection

RECURSIVE unique(_)
\* Series.unique(): the distinct values in order of first appearance, the
\* missing values as one NaN.
unique(s) ==
    IF s = <<>> THEN <<>>
    ELSE LET r == unique(SubSeq(s, 1, Len(s) - 1))
             x == s[Len(s)]
         IN  IF x \in Range(r) THEN r ELSE Append(r, x)

RECURSIVE Digits(_)
\* The decimal digits of n.
Digits(n) == IF n < 10 THEN <<n>> ELSE Append(Digits(n \div 10), n % 10)

RECURSIVE LexLess(_, _)
LexLess(a, b) ==
    IF b = <<>> THEN FALSE
    ELSE IF a = <<>> THEN TRUE
    ELSE IF a[1] # b[1] THEN a[1] < b[1]
    ELSE LexLess(Tail(a), Tail(b))

\* The order of the identifiers' text.
IdLessLexical(a, b) ==
    /\ ~a.nan
    /\ b.nan \/ LexLess(Digits(a.v), Digits(b.v))

\* The order ndarray.sort() puts two distinct identifiers in: by number,
\* NaN last.
IdLess(a, b) ==
    /\ ~a.nan
    /\ b.nan \/ a.v < b.v

RECURSIVE sort(_)
\* unique_batches.sort()
sort(s) ==
    IF s = <<>> THEN <<>>
    ELSE LET rest == sort(Tail(s))
             k == Cardinality({i \in 1..Len(rest) : IdLess(rest[i], s[1])})
         IN  SubSeq(rest, 1, k) \o <<s[1]>> \o SubSeq(rest, k + 1, Len(rest))

\* The 'batch_id' column of the frame.
BatchIds(df) == [i \in 1..Len(df.rows) |-> df.rows[i].batch_id]

\* listBatchIds: df['batch_id'].unique() followed by sort().
unique_batches(df) == sort(unique(BatchIds(df)))

\* The state of the selectbox before the operator has touched it.
Unpicked == [set |-> FALSE, opts |-> <<>>, v |-> NaN]

\* st.sidebar.selectbox: None (<<>>) without options; otherwise the option
\* the operator picked in this widget, or the first option.  A selectbox
\* with other options is another widget and starts at its default.
selectbox(options, pk) ==
    IF options = <<>> THEN <<>>
    ELSE IF pk.set /\ pk.opts = options THEN <<pk.v>>
    ELSE <<options[1]>>

\* df['batch_id'] == selected_batch_id: NaN equals nothing.
IdEq(a, b) == ~a.nan /\ ~b.nan /\ a.v = b.v

\* df[df['batch_id'] == selected_batch_id].copy(): the matching rows, in
\* the order of the file.
batch_data(df, b) == SelectSeq(df.rows, LAMBDA r : IdEq(r.batch_id, b))

\* batch_data['Timestamp'].min(): NaT when no row has a Timestamp.
start_time(bd) ==
    LET ts == {bd[i].Timestamp.t : i \in {j \in 1..Len(bd) : ~bd[j].Timestamp.nat}}
    IN  IF ts = {} THEN NaT
        ELSE Instant(CHOOSE t \in ts : \A u \in ts : t <= u)

\* batch_data['Timestamp'].max()
end_time(bd) ==
    LET ts == {bd[i].Timestamp.t : i \in {j \in 1..Len(bd) : ~bd[j].Timestamp.nat}}
    IN  IF ts = {} THEN NaT
        ELSE Instant(CHOOSE t \in ts : \A u \in ts : t >= u)

\* f"{duration:.2f}" of (end_time - start_time).total_seconds() / 60.0;
\* NaT - NaT is NaT, whose total_seconds() is NaN.
duration(st, en) ==
    IF st.nat \/ en.nat THEN NanStr ELSE Fmt2(en.t - st.t, SecondsPerMinute)

\* The time metrics of lines 121-126.  start_time.strftime raises
\* ValueError on NaT.
summarize(df, b) ==
    LET bd == batch_data(df, b)
        st == start_time(bd)
        en == end_time(bd)
    IN  IF st.nat
        THEN [raised |-> TRUE, exc |-> "ValueError", rows |-> Len(bd),
              start_time |-> st, end_time |-> en, duration |-> duration(st, en),
              date_str |-> 0, time_range_str |-> <<>>]
        ELSE [raised |-> FALSE, exc |-> "", rows |-> Len(bd),
              start_time |-> st, end_time |-> en, duration |-> duration(st, en),
              date_str |-> strftime_date(st),
              time_range_str |-> <<strftime_time(st), strftime_time(en)>>]

\* The x and y handed to go.Scatter for one column: the batch's rows in
\* the order of batch_data.
seriesFor(bd, c) ==
    [i \in 1..Len(bd) |-> [x |-> bd[i].Timestamp, y |-> bd[i].vals[c]]]

\* batch_data[c]
Column(bd, c) == [i \in 1..Len(bd) |-> bd[i].vals[c]]

----------------------------------------------------------------------------
\* main()

\* The locals and the rendered elements before the script has run.
\*   outcome   "none" (not run), "stopped" (st.stop()), "raised" (an
\*             uncaught exception ended the script), "done"
\*   exc, at   the exception and the call that raised it
\*   error     the st.error "Data file not found" is shown
\*   info      the st.info "No batches available." is shown
\*   df        the value load_data() returned (NoneValue before that)
\*   listed    the selectbox is rendered, with options
\*   selected  <<selected_batch_id>>, <<>> for None
\*   metrics   <<the four metric cards>> once rendered
\*   chart     <<the seven traces>> once st.plotly_chart has rendered them
\*   stats     <<the five stat cards>> once rendered
\* and about the execution itself:
\*   readable     the body of load_data would have returned a data frame
\*                from the file as it was during this execution
\*   afterFailure the execution before this one ended without a data frame
NotRun ==
    [outcome |-> "none", exc |-> "", at |-> "", error |-> FALSE, info |-> FALSE,
     df |-> NoneValue, listed |-> FALSE, options |-> <<>>, selected |-> <<>>,
     batch_data |-> <<>>, metrics |-> <<>>, chart |-> <<>>, stats |-> <<>>,
     readable |-> FALSE, afterFailure |-> FALSE]

\* The execution ended without a data frame: load_data returned None or
\* raised.
LoadFailed(r) == r.outcome # "none" /\ r.df.isNone

\* Lines 97-99: st.stop() ends the script when df is None.
stop_after_error(df) == df.isNone

\* One execution of main() with the file src, the memo c, the selectbox
\* state pk, after the execution prev: the new memo and the new locals and
\* rendered elements.
main(src, c, pk, prev) ==
    LET ld   == cached_load_data(src, c)
        r0   == [NotRun EXCEPT
                   !.readable = (~load_data(src).raised /\ ~load_data(src).value.isNone),
                   !.afterFailure = LoadFailed(prev)]
        df   == ld.value
        opts == unique_batches(df)
        sel  == selectbox(opts, pk)
        sm   == summarize(df, sel[1])
        bd   == batch_data(df, sel[1])
        r1   == [r0 EXCEPT !.df = df, !.error = df.isNone]
        r2   == [r1 EXCEPT !.listed = TRUE, !.options = opts, !.selected = sel]
        r3   == [r2 EXCEPT !.batch_data = bd]
        r4   == [r3 EXCEPT !.metrics = <<[batch_id |-> sel[1],
                                         date_str |-> sm.date_str,
                                         time_range_str |-> sm.time_range_str,
                                         duration |-> sm.duration]>>]
    IN  [cache |-> ld.cache,
         run |->
           IF ld.raised
           THEN [r0 EXCEPT !.outcome = "raised", !.exc = ld.exc, !.at = "load_data"]
           ELSE IF stop_after_error(df)
           THEN [r1 EXCEPT !.outcome = "stopped"]
           ELSE IF "batch_id" \notin df.cols
           THEN [r1 EXCEPT !.outcome = "raised", !.exc = "KeyError", !.at = "unique"]
           ELSE IF sel = <<>>
           THEN [r2 EXCEPT !.outcome = "stopped", !.info = TRUE]
           ELSE IF sm.raised
           THEN [r3 EXCEPT !.outcome = "raised", !.exc = sm.exc, !.at = "strftime"]
           ELSE IF ~(VarCols \subseteq df.cols)
           THEN [r4 EXCEPT !.outcome = "raised", !.exc = "KeyError", !.at = "add_trace"]
           ELSE [r4 EXCEPT
                   !.outcome = "done",
                   !.chart = <<[c2 \in VarCols |-> seriesFor(bd, c2)]>>,
                   !.stats = <<[c2 \in Range(StatColumns) |->
                                  calculate_stats(Column(bd, c2))]>>]]

----------------------------------------------------------------------------
\* The modelled files

\* Timestamp cells: empty, hour 25, 10:00:00 and 10:01:30 of day 1.
TsTexts == {<<>>, <<1, 25, 0, 0>>, <<1, 10, 0, 0>>, <<1, 10, 1, 30>>}

\* batch_id cells: empty, "2" and "10".
IdTexts == {<<>>, <<2>>, <<1, 0>>}

\* The numeric cells of a row: the same cell in every variable column.
ValRows == {[c \in VarCols |-> x] : x \in {NaN, Num(1), Num(2)}}

\* Rows that vary in Timestamp and batch_id.
TimingRows ==
    [Timestamp : TsTexts, batch_id : IdTexts, vals : {[c \in VarCols |-> Num(1)]}]

\* Rows that vary in their numeric cells.
ValueRows ==
    [Timestamp : {<<1, 10, 0, 0>>, <<1, 10, 1, 30>>},
     batch_id : {<<2>>, <<1, 0>>}, vals : ValRows]

RowSeqs(n) ==
    UNION {[1..k -> TimingRows] \cup [1..k -> ValueRows] : k \in 0..n}

Absent == [exists |-> FALSE, cols |-> {}, rows |-> <<>>]

File(cols, rows) == [exists |-> TRUE, cols |-> cols, rows |-> rows]

SampleRow(id, ts) ==
    [Timestamp |-> ts, batch_id |-> id, vals |-> [c \in VarCols |-> Num(1)]]

\* No file; every file of up to MaxRows rows with all columns; and a
\* one-row file with each single column left out.
Sources ==
    {Absent}
    \cup {File(RequiredColumns, rows) : rows \in RowSeqs(MaxRows)}
    \cup {File(RequiredColumns \ {c}, <<SampleRow(<<2>>, <<1, 10, 0, 0>>)>>) :
            c \in RequiredColumns}

\* What the operator may put in place of the file while the app is up.
Replacements ==
    {Absent,
     File(RequiredColumns, <<SampleRow(<<1, 0>>, <<1, 10, 1, 30>>),
                             SampleRow(<<2>>, <<1, 10, 0, 0>>)>>)}

----------------------------------------------------------------------------
\* The state machine

Init ==
    /\ source \in Sources
    /\ cache = EmptyCache
    /\ picked = Unpicked
    /\ run = NotRun

\* The script runs top to bottom: the first page load, or any rerun that
\* leaves the selectbox as it is.
Rerun ==
    LET m == main(source, cache, picked, run)
    IN  /\ cache' = m.cache
        /\ run' = m.run
        /\ UNCHANGED <<source, picked>>

\* The operator picks option b of the rendered selectbox, and the script
\* reruns.
SelectBatch(b) ==
    /\ run.listed
    /\ b \in Range(run.options)
    /\ LET pk == [set |-> TRUE, opts |-> run.options, v |-> b]
           m  == main(source, cache, pk, run)
       IN  /\ picked' = pk
           /\ cache' = m.cache
           /\ run' = m.run
    /\ UNCHANGED source

\* The operator replaces, creates or removes the data file.
SupplySource(s) ==
    /\ source' = s
    /\ source' # source
    /\ UNCHANGED <<cache, picked, run>>

Next ==
    \/ Rerun
    \/ \E b \in {NaN} \cup {Num(ParseInt(t)) : t \in IdTexts \ {<<>>}} : SelectBatch(b)
    \/ \E s \in Replacements : SupplySource(s)

Spec == Init /\ [][Next]_vars

----------------------------------------------------------------------------
\* Properties

\* Every row of the frame has a Timestamp.
AllTimed(df) == \A i \in 1..Len(df.rows) : ~df.rows[i].Timestamp.nat

\* The number of values of column c in the selected batch.
N(c) == Len(Valid(Column(run.batch_data, c)))

\* Nothing of a batch is on the page.
NothingShown(r) ==
    /\ ~r.listed
    /\ r.options = <<>>
    /\ r.selected = <<>>
    /\ r.metrics = <<>>
    /\ r.chart = <<>>
    /\ r.stats = <<>>

\* C1: for a loaded table whose rows all have a Timestamp, every identifier
\* offered in the selectbox (the one standing for a missing batch_id
\* included) summarizes without failure, over at least one row, with
\* start_time <= end_time.
C1_ListedBatchesSummarize ==
    (run.listed /\ AllTimed(run.df)) =>
        \A i \in 1..Len(run.options) :
            LET sm == summarize(run.df, run.options[i])
            IN  /\ ~sm.raised
                /\ sm.rows > 0
                /\ ~sm.start_time.nat /\ ~sm.end_time.nat
                /\ sm.start_time.t <= sm.end_time.t

\* C2: the options of the selectbox are exactly the distinct batch_id
\* values of the table, each once, in ascending numeric order (the missing
\* identifier, having no order, after the numbers), whatever the order of
\* the rows.
C2_ListBatchIdsSortedUnique ==
    run.listed =>
        /\ Range(run.options) = Range(BatchIds(run.df))
        /\ \A i, j \in 1..Len(run.options) :
               i < j => /\ ~run.options[i].nan
                        /\ run.options[j].nan \/ run.options[i].v < run.options[j].v

\* A table with batch 10 before batch 2 has been listed as 2, 10.
C2_Witness ==
    /\ run.listed
    /\ BatchIds(run.df) = <<Num(10), Num(2)>>
    /\ run.options = <<Num(2), Num(10)>>

\* C3: a selected identifier that matches no row ends the execution with
\* the explicit BatchNotFound outcome, with no summary rendered.
C3_UnknownBatchIsBatchNotFound ==
    (run.selected # <<>> /\ batch_data(run.df, run.selected[1]) = <<>>) =>
        /\ run.exc = "BatchNotFound"
        /\ run.metrics = <<>>

\* C4: an execution that reads the file while it does not exist gets None
\* from load_data, not an exception, and every execution whose load_data
\* returned None shows the data-not-found error and stops with no batch
\* listing, selection, summary, chart or statistics.
C4_MissingSourceStops ==
    [][source' = source =>
         /\ (~source.exists /\ ~cache.filled) =>
                (run'.df.isNone /\ run'.outcome = "stopped" /\ run'.exc = "")
         /\ (run'.outcome = "stopped" /\ run'.df.isNone) =>
                (run'.error /\ ~run'.info /\ NothingShown(run'))]_vars

\* The file was absent when load_data read it, and the page shows the
\* data-not-found error.
C4_Witness ==
    /\ ~source.exists
    /\ cache.filled /\ cache.value.isNone
    /\ run.outcome = "stopped" /\ run.error

\* C5: no batch is ever listed from a table with a row whose Timestamp is
\* missing or unparsed: such a source fails the whole load.
C5_NoTableWithMissingTimestamp ==
    run.listed => AllTimed(run.df)

\* C6: a table returned by the loader has every required column.
C6_NoTableWithMissingColumn ==
    ~run.df.isNone => RequiredColumns \subseteq run.df.cols

\* C7: each charted series holds exactly the rows of the selected batch,
\* in ascending order of Timestamp.
C7_SeriesSortedByTimestamp ==
    run.chart # <<>> =>
        \A c \in VarCols :
            LET tr == run.chart[1][c]
            IN  /\ Len(tr) = Cardinality({i \in 1..Len(run.df.rows) :
                                IdEq(run.df.rows[i].batch_id, run.selected[1])})
                /\ \A i, j \in 1..Len(tr) :
                       (i < j /\ ~tr[i].x.nat /\ ~tr[j].x.nat) => tr[i].x.t <= tr[j].x.t

\* C8: for a variable with no value in the selected batch all five
\* statistics print as nan, and with exactly one value the mean does not,
\* so that the two cases differ on the page.
C8_NoValuesAllUndefined ==
    run.stats # <<>> =>
        \A c \in Range(StatColumns) :
            LET st == run.stats[1][c]
            IN  /\ N(c) = 0 => (/\ st.Mean = NanStr /\ st.Median = NanStr
                                /\ st.Max = NanStr /\ st.Min = NanStr
                                /\ st.StdDev = NanStr)
                /\ N(c) = 1 => (~st.Mean.nan /\ st.StdDev.nan)

\* Statistics are rendered for a batch in which a variable has no value.
C8_Witness ==
    /\ run.stats # <<>>
    /\ \E c \in Range(StatColumns) : N(c) = 0

\* C9: for a variable with exactly one value x in the selected batch, mean,
\* median, max and min print x and the standard deviation prints nan; the
\* statistics are rendered whenever the chart is; and a batch of one row
\* has duration 0.00.
C9_SingleValueStats ==
    /\ run.stats # <<>> =>
           \A c \in Range(StatColumns) :
               N(c) = 1 =>
                   LET st == run.stats[1][c]
                       x  == Valid(Column(run.batch_data, c))[1].v
                       px == [nan |-> FALSE, digits |-> 100 * x]
                   IN  /\ st.Mean = px /\ st.Median = px
                       /\ st.Max = px /\ st.Min = px
                       /\ st.StdDev = NanStr
    /\ run.chart # <<>> => (run.stats # <<>> /\ run.outcome = "done")
    /\ (run.metrics # <<>> /\ Len(run.batch_data) = 1) =>
           run.metrics[1].duration = [nan |-> FALSE, digits |-> 0]

\* Statistics are rendered for a batch of one row that has a value.
C9_Witness ==
    /\ run.stats # <<>>
    /\ Len(run.batch_data) = 1
    /\ \E c \in Range(StatColumns) : N(c) = 1
    /\ run.metrics[1].duration.digits = 0

\* C10: an execution whose load failed lists and summarizes nothing; the
\* first execution after a failed one that finds a readable file gets its
\* table; and a failed or empty selection leaves the loaded table in place.
C10_LoadRecoversSelectionKeepsTable ==
    /\ LoadFailed(run) => (NothingShown(run) /\ run.batch_data = <<>>)
    /\ (run.afterFailure /\ run.readable) => ~run.df.isNone
    /\ (run.info \/ run.at = "strftime") =>
           (cache.filled /\ cache.value = run.df /\ ~run.df.isNone)

====
